---------------------------- MODULE Spec2Model ----------------------------
(***************************************************************************)
(* A model of the blockbuilder repository:                                 *)
(*   - BlockSystem (src/src/BlockSystem.js): the block map, the scene, the *)
(*     selected block type, placeBlock / removeBlock / handleClick;        *)
(*   - the drag-aware BlockBuilder controller (src/unnamed/part_001), as   *)
(*     a whole and in two closer views: its button gestures over a small   *)
(*     scene, and its model loader with several models that load;          *)
(*   - the simple click-to-place BlockBuilder controller                   *)
(*     (src/unnamed/part_000).                                             *)
(* World coordinates are fixed-point numbers: an integer w stands for the  *)
(* real w / Res.  Grid coordinates and pixels are integers.                *)
(***************************************************************************)
EXTENDS Integers, Sequences, FiniteSets, Bags, TLC

VARIABLES
    program,            \* which of the repository's programs is running
    \* ---- BlockSystem
    blocks,             \* this.blocks: key -> mesh
    scene,              \* the block meshes in this.scene (a bag of meshes)
    selectedBlockType,  \* this.selectedBlockType
    highlightBlock,     \* this.highlightBlock: visible, position
    sysCall,            \* the last BlockSystem call, its arguments and result
    \* ---- BlockBuilder (both controllers)
    blocksGroup,        \* this.blocksGroup.children (a bag of objects)
    occupiedPositions,  \* this.occupiedPositions: a set of keys
    previewBlock,       \* this.previewBlock: visible, position
    \* ---- BlockBuilder (drag-aware controller only)
    blockModels,        \* the ids with an entry in this.blockModels
    selectedModel,      \* this.selectedModel
    allModelFiles,      \* this.allModelFiles (empty until the catalog is in)
    pagination,         \* this.pagination
    pendingLoads,       \* gltfLoader.load callbacks that have not run yet
    loader,             \* in the view of the loader: the option clicked last, the load
                        \* whose callback ran last, the selection and the page it found
    isDragging, dragStartX, dragStartY, clickedOnUI,
    gesture,            \* the button gesture under way, or the one just ended
    press,              \* in the view of gestures: the primary press under way or just
                        \* ended, and what has come in since the button went down
    scenario,           \* how far the run has followed the placement scenario
    event               \* the pointer or key handler that ran last, what it did and what it
                        \* saw; or selectModel and its caller, if it changed the selection since

sysVars   == <<blocks, scene, selectedBlockType, highlightBlock, sysCall>>
groupVars == <<blocksGroup, occupiedPositions>>
modelVars == <<blockModels, selectedModel, allModelFiles, pagination, pendingLoads, loader>>
dragVars  == <<isDragging, dragStartX, dragStartY, clickedOnUI, gesture, press>>
ctlVars   == <<groupVars, previewBlock, modelVars, dragVars, scenario, event>>
vars      == <<program, sysVars, ctlVars>>

---------------------------------------------------------------------------
(* Bounds of the model *)

\* Sub-steps per half block: world coordinates have resolution 1/(2*Half).
Half == 2
\* Direct calls and pointer hits address grid coordinates 0..MaxCoord.
MaxCoord == 1
\* At most this many blocks are placed (a cap on the guards of placement).
MaxBlocks == 2
\* The meshes of a block model lie at most this deep below its top-level object.
MaxDepth == 2

\* Bits in the significand of a number (a double has 53)
Precision == 2

Res == 2 * Half

---------------------------------------------------------------------------
(* Numbers, vectors and keys *)

Vec(a, b, c) == [x |-> a, y |-> b, z |-> c]

VecAdd(p, q) == [x |-> p.x + q.x, y |-> p.y + q.y, z |-> p.z + q.z]

VecScale(p, k) == [x |-> p.x * k, y |-> p.y * k, z |-> p.z * k]

Abs(n) == IF n < 0 THEN -n ELSE n

\* Math.floor(w / d) for a world coordinate w and a length of d whole units
MathFloorDiv(w, d) == w \div (Res * d)

\* Math.round(w): the nearest integer, a half rounded up
MathRound(w) == (w + Half) \div Res

\* How many low bits a magnitude loses to fit Precision bits
RECURSIVE FloatShift(_)
FloatShift(a) == IF a < 2 ^ Precision THEN 0 ELSE 1 + FloatShift(a \div 2)

\* The number nearest to n that has Precision significant bits, a tie going
\* to the even significand: what an arithmetic operation whose exact result
\* is n returns
FloatRound(n) ==
    LET a == Abs(n)
        k == FloatShift(a)
        q == a \div (2 ^ k)
        r == a % (2 ^ k)
        m == IF 2 * r > 2 ^ k \/ (2 * r = 2 ^ k /\ q % 2 = 1) THEN q + 1 ELSE q
    IN  (IF n < 0 THEN -1 ELSE 1) * m * (2 ^ k)

\* a + b, componentwise, in floating point
FloatAdd(p, q) == Vec(FloatRound(p.x + q.x), FloatRound(p.y + q.y), FloatRound(p.z + q.z))

DigitChars == <<"0", "1", "2", "3", "4", "5", "6", "7", "8", "9">>

RECURSIVE Digits(_)
Digits(n) ==
    IF n < 10 THEN <<DigitChars[n + 1]>>
    ELSE Append(Digits(n \div 10), DigitChars[(n % 10) + 1])

\* `${n}` for an integer n: a sequence of characters
NumberToString(n) == IF n < 0 THEN <<"-">> \o Digits(-n) ELSE Digits(n)

\* `${a},${b},${c}`
KeyString(a, b, c) ==
    NumberToString(a) \o <<",">> \o NumberToString(b) \o <<",">> \o NumberToString(c)

Undefined == [name |-> "undefined", color |-> "undefined"]

---------------------------------------------------------------------------
(* BlockSystem *)

blockSize == 1

BLOCK_TYPES ==
    [GRASS |-> [name |-> "Grass", color |-> "0x3A9D23"],
     DIRT  |-> [name |-> "Dirt",  color |-> "0x8B4513"],
     STONE |-> [name |-> "Stone", color |-> "0x7D7D7D"],
     WOOD  |-> [name |-> "Wood",  color |-> "0x966F33"],
     WATER |-> [name |-> "Water", color |-> "0x1CA3EC"],
     SAND  |-> [name |-> "Sand",  color |-> "0xEDC9AF"]]

\* BLOCK_TYPES is an object literal: a lookup that finds no own property goes
\* on to Object.prototype, whose members are functions (or, for __proto__,
\* the prototype object itself), all of them truthy.
ObjectPrototype ==
    [constructor    |-> [name |-> "Object",         color |-> "undefined"],
     toString       |-> [name |-> "toString",       color |-> "undefined"],
     valueOf        |-> [name |-> "valueOf",        color |-> "undefined"],
     hasOwnProperty |-> [name |-> "hasOwnProperty", color |-> "undefined"]]

\* BLOCK_TYPES[type]
BlockTypesLookupOwn(type) ==
    IF type \in DOMAIN BLOCK_TYPES THEN BLOCK_TYPES[type] ELSE Undefined

BlockTypesLookup(type) ==
    IF type \in DOMAIN BLOCK_TYPES THEN BLOCK_TYPES[type]
    ELSE IF type \in DOMAIN ObjectPrototype THEN ObjectPrototype[type]
    ELSE Undefined

\* setSelectedBlockType(type): the new selection and the value returned
setSelectedBlockType(selected, type) ==
    IF BlockTypesLookup(type) # Undefined
    THEN [selectedBlockType |-> BlockTypesLookup(type), ret |-> TRUE]
    ELSE [selectedBlockType |-> selected, ret |-> FALSE]

worldToGridRounding(position) ==
    Vec(MathRound(position.x), MathRound(position.y), MathRound(position.z))

worldToGrid(position) ==
    Vec(MathFloorDiv(position.x, blockSize),
        MathFloorDiv(position.y, blockSize),
        MathFloorDiv(position.z, blockSize))

gridToWorld(gridPos) ==
    Vec(gridPos.x * blockSize * Res + blockSize * Half,
        gridPos.y * blockSize * Res + blockSize * Half,
        gridPos.z * blockSize * Res + blockSize * Half)

positionToKey(pos) == KeyString(pos.x, pos.y, pos.z)

\* key.split(','): the pieces of key between the commas
RECURSIVE SplitOnComma(_, _)
SplitOnComma(chars, piece) ==
    IF chars = <<>> THEN <<piece>>
    ELSE IF Head(chars) = "," THEN <<piece>> \o SplitOnComma(Tail(chars), <<>>)
    ELSE SplitOnComma(Tail(chars), Append(piece, Head(chars)))

DigitValue(c) == CHOOSE d \in 0 .. 9 : DigitChars[d + 1] = c

RECURSIVE DigitsToNumber(_, _)
DigitsToNumber(chars, acc) ==
    IF chars = <<>> THEN acc
    ELSE DigitsToNumber(Tail(chars), 10 * acc + DigitValue(Head(chars)))

StringToNumberWithoutSign(chars) ==
    IF chars # <<>> /\ Head(chars) = "-" THEN DigitsToNumber(Tail(chars), 0)
    ELSE DigitsToNumber(chars, 0)

\* Number(s) for the decimal numeral of an integer (and 0 for the empty string)
StringToNumber(chars) ==
    IF chars # <<>> /\ Head(chars) = "-" THEN -DigitsToNumber(Tail(chars), 0)
    ELSE DigitsToNumber(chars, 0)

keyToPosition(key) ==
    LET parts == SplitOnComma(key, <<>>)
    IN  Vec(StringToNumber(parts[1]), StringToNumber(parts[2]), StringToNumber(parts[3]))

hasBlockNever(blks, gridPos) == FALSE

hasBlock(blks, gridPos) == positionToKey(gridPos) \in DOMAIN blks

\* Where placeBlock puts the mesh: gridToWorld(gridPos) - blockSize / 2
MeshPosition(gridPos) ==
    LET worldPos == gridToWorld(gridPos)
    IN  Vec(worldPos.x - blockSize * Half,
            worldPos.y - blockSize * Half,
            worldPos.z - blockSize * Half)

\* A BlockSystem state: [blocks, scene, selectedBlockType]
SysState(b, s, t) == [blocks |-> b, scene |-> s, selectedBlockType |-> t]

\* placeBlock(gridPos): the state after the call and the value returned.  A
\* mesh is modelled by its position; its material and shadow flags are
\* rendering attributes that no operation reads back.
placeBlock(st, gridPos) ==
    IF hasBlock(st.blocks, gridPos)
    THEN [st |-> st, ret |-> FALSE]
    ELSE LET blockMesh == [position |-> MeshPosition(gridPos)]
             key == positionToKey(gridPos)
         IN  [st  |-> [st EXCEPT !.scene = @ (+) SetToBag({blockMesh}),
                                 !.blocks = [k \in DOMAIN @ \cup {key} |->
                                               IF k = key THEN blockMesh ELSE @[k]]],
              ret |-> TRUE]

removeBlockKeepsRecord(st, gridPos) ==
    LET key == positionToKey(gridPos)
    IN  IF key \in DOMAIN st.blocks
        THEN [st  |-> [st EXCEPT !.scene = @ (-) SetToBag({st.blocks[key]})],
              ret |-> TRUE]
        ELSE [st |-> st, ret |-> FALSE]

removeBlockReportsTrue(st, gridPos) ==
    LET key == positionToKey(gridPos)
    IN  [st  |-> [st EXCEPT !.blocks = [k \in DOMAIN @ \ {key} |-> @[k]]],
         ret |-> TRUE]

\* removeBlock(gridPos): the state after the call and the value returned
removeBlock(st, gridPos) ==
    LET key == positionToKey(gridPos)
    IN  IF key \in DOMAIN st.blocks
        THEN LET blockMesh == st.blocks[key]
             IN  [st  |-> [st EXCEPT !.scene = @ (-) SetToBag({blockMesh}),
                                     !.blocks = [k \in DOMAIN @ \ {key} |-> @[k]]],
                  ret |-> TRUE]
        ELSE [st |-> st, ret |-> FALSE]

\* The cell handleClick resolves for a left click: the hit point moved half a
\* block along the face normal, snapped to the grid.
PlaceTarget(point, normal) ==
    worldToGrid(VecAdd(point, VecScale(normal, blockSize * Half)))

\* The cell handleClick resolves for a right click.
RemoveTarget(point) == worldToGrid(point)

\* handleClick(intersection, face, isRightClick) for an intersection that
\* exists: the state after the call and the value returned
handleClick(st, point, normal, isRightClick) ==
    IF isRightClick
    THEN removeBlock(st, RemoveTarget(point))
    ELSE placeBlock(st, PlaceTarget(point, normal))


updateHighlightPositionAtHit(st, hl, point, normal) ==
    LET gridPos == worldToGrid(point)
    IN  IF hasBlock(st.blocks, gridPos)
        THEN [st |-> st, highlightBlock |-> [hl EXCEPT !.visible = FALSE], ret |-> <<>>]
        ELSE [st |-> st,
              highlightBlock |-> [visible |-> TRUE, position |-> MeshPosition(gridPos)],
              ret |-> <<gridPos>>]

hideHighlightLeavesIt(hl) == hl

\* updateHighlightPosition(null, face): the highlight after the call
hideHighlight(hl) == [hl EXCEPT !.visible = FALSE]

updateHighlightPositionPlaces(st, hl, point, normal) ==
    [st |-> placeBlock(st, PlaceTarget(point, normal)).st,
     highlightBlock |-> hl, ret |-> <<>>]

\* updateHighlightPosition(intersection, face) for an intersection that
\* exists: the state and the highlight after the call and the value returned
\* (<<>> for null, <<gridPos>> for a cell)
updateHighlightPosition(st, hl, point, normal) ==
    LET gridPos == PlaceTarget(point, normal)
    IN  IF hasBlock(st.blocks, gridPos)
        THEN [st |-> st, highlightBlock |-> hideHighlight(hl), ret |-> <<>>]
        ELSE [st |-> st,
              highlightBlock |-> [visible |-> TRUE, position |-> MeshPosition(gridPos)],
              ret |-> <<gridPos>>]

---------------------------------------------------------------------------
(* BlockSystem: the calls a client makes *)

\* The grid coordinates calls and pointer hits address
Coords == 0 .. MaxCoord

\* The same with one coordinate on the negative side, for the cells the
\* properties apply the operations to
SignedCoords == (-1) .. MaxCoord

\* The cells direct calls address
GridCells == {Vec(a, 0, 0) : a \in Coords}

\* The ids setSelectedBlockType is called with: a catalog key, a member of
\* Object.prototype, a key in the wrong case
TypeIds == {"GRASS", "constructor", "grass"}

\* The six face normals of THREE.BoxGeometry
FaceNormals ==
    {Vec(1, 0, 0), Vec(-1, 0, 0), Vec(0, 1, 0), Vec(0, -1, 0), Vec(0, 0, 1), Vec(0, 0, -1)}

\* Offsets from a cube's centre to the points of its surface
HalfRange == (-(blockSize * Half)) .. (blockSize * Half)

\* The offsets, along each edge of a face, of the hits the calls are made with
HitOffsets == {-1, 0, blockSize * Half}

\* The points of FacePoints(m, n) the calls are made with
HitPoints(m, n) ==
    {VecAdd(m.position, d) :
        d \in {e \in [x : HitOffsets, y : HitOffsets, z : HitOffsets] :
                  e.x * n.x + e.y * n.y + e.z * n.z = blockSize * Half}}

Dot(p, q) == p.x * q.x + p.y * q.y + p.z * q.z

\* The points of the face with normal n of the cube drawn for mesh m: the
\* mesh's geometry is BoxGeometry(blockSize, blockSize, blockSize), centred
\* on m.position.
FacePoints(m, n) ==
    {VecAdd(m.position, d) :
        d \in {e \in [x : HalfRange, y : HalfRange, z : HalfRange] :
                  Dot(e, n) = blockSize * Half}}

\* The intersections updateHighlightPosition is called with: the centre of a
\* face of the cube of a block, or the centre of a ground cell, hit from above
HighlightHits(blks) ==
    {[point |-> VecAdd(blks[k].position, VecScale(n, blockSize * Half)), normal |-> n] :
        k \in DOMAIN blks, n \in FaceNormals}
    \cup {[point |-> Vec(c * blockSize * Res + Half, 0, Half), normal |-> Vec(0, 1, 0)] :
              c \in Coords}

\* The cells gridToWorld is called with
CentreCells == {Vec(a, b, 0) : a \in (-2) .. 2, b \in (-2) .. 2}

\* The offsets from a cell's centre: less than half a block on each axis
CentreOffsets ==
    LET span == (-(blockSize * Half - 1)) .. (blockSize * Half - 1)
    IN  {Vec(a, b, 0) : a \in span, b \in span}

\* The coordinates positionToKey and keyToPosition are called with: negative,
\* zero and positive, of one digit and of two
KeyCoords == {-10, -1, 0, 12}

KeyBox == {Vec(a, b, c) : a \in KeyCoords, b \in KeyCoords, c \in KeyCoords}

\* The cells a run places blocks in: the model stops a placement outside
Region == {Vec(a, 0, 0) : a \in Coords} \cup {Vec(0, 1, 0)}

NoCell == Vec(0, 0, 0)

EmptyMap == [k \in {} |-> 0]

\* The call a client made last, with the intersection it was given if it
\* takes one, and the call before it
SysCallAt(op, pos, ret, point, normal) ==
    [op |-> op, pos |-> pos, ret |-> ret, point |-> point, normal |-> normal,
     prev |-> [op |-> sysCall.op, pos |-> sysCall.pos, ret |-> sysCall.ret]]

SysCall(op, pos, ret) == SysCallAt(op, pos, ret, NoCell, NoCell)

SysNow == SysState(blocks, scene, selectedBlockType)

\* The blocks placed so far stay within the model's cap
RoomFor(gridPos) ==
    \/ hasBlock(blocks, gridPos)
    \/ BagCardinality(scene) < MaxBlocks /\ gridPos \in Region

SysInit ==
    /\ blocks = EmptyMap
    /\ scene = EmptyBag
    /\ selectedBlockType = BLOCK_TYPES.GRASS
    /\ highlightBlock = [visible |-> FALSE, position |-> NoCell]
    /\ sysCall = [op |-> "new", pos |-> NoCell, ret |-> FALSE,
                  point |-> NoCell, normal |-> NoCell,
                  prev |-> [op |-> "new", pos |-> NoCell, ret |-> FALSE]]

SysApply(r, call) ==
    /\ blocks' = r.st.blocks
    /\ scene' = r.st.scene
    /\ selectedBlockType' = r.st.selectedBlockType
    /\ sysCall' = call
    /\ UNCHANGED highlightBlock

SetSelectedBlockType ==
    /\ program = "BlockSystem"
    /\ \E type \in TypeIds :
           LET r == setSelectedBlockType(selectedBlockType, type)
           IN  /\ selectedBlockType' = r.selectedBlockType
               /\ sysCall' = SysCall("setSelectedBlockType", NoCell, r.ret)
               /\ UNCHANGED <<blocks, scene, highlightBlock>>
    /\ UNCHANGED <<program, ctlVars>>

PlaceBlock ==
    /\ program \in {"BlockSystem", "BlockSystemHover"}
    /\ \E g \in GridCells :
           /\ RoomFor(g)
           /\ SysApply(placeBlock(SysNow, g),
                       SysCall("placeBlock", g, placeBlock(SysNow, g).ret))
    /\ UNCHANGED <<program, ctlVars>>

RemoveBlock ==
    /\ program \in {"BlockSystem", "BlockSystemHover"}
    /\ \E g \in GridCells :
           SysApply(removeBlock(SysNow, g),
                    SysCall("removeBlock", g, removeBlock(SysNow, g).ret))
    /\ UNCHANGED <<program, ctlVars>>

\* handleClick with an intersection on a face of the cube drawn for the block
\* at cell g
HandleClick ==
    /\ program = "BlockSystem"
    /\ \E key \in DOMAIN blocks :
         \E n \in FaceNormals :
           \E point \in HitPoints(blocks[key], n) :
             \E isRightClick \in BOOLEAN :
               LET target == IF isRightClick THEN RemoveTarget(point)
                             ELSE PlaceTarget(point, n)
                   r == handleClick(SysNow, point, n, isRightClick)
               IN  /\ isRightClick \/ RoomFor(target)
                   /\ SysApply(r, SysCall(IF isRightClick THEN "handleClickRight"
                                          ELSE "handleClickLeft",
                                          NoCell, r.ret))
    /\ UNCHANGED <<program, ctlVars>>

\* handleClick without an intersection returns false at once
HandleClickNoIntersection ==
    /\ program = "BlockSystem"
    /\ /\ sysCall' = SysCall("handleClickNone", NoCell, FALSE)
       /\ UNCHANGED <<blocks, scene, selectedBlockType, highlightBlock>>
    /\ UNCHANGED <<program, ctlVars>>

\* updateHighlightPosition with an intersection: a point of a face of a
\* block's cube, or a point of the ground below the grid (normal up)
UpdateHighlightPosition ==
    /\ program = "BlockSystemHover"
    /\ \E hit \in HighlightHits(blocks) :
           LET r == updateHighlightPosition(SysNow, highlightBlock, hit.point, hit.normal)
           IN  /\ blocks' = r.st.blocks
               /\ scene' = r.st.scene
               /\ selectedBlockType' = r.st.selectedBlockType
               /\ highlightBlock' = r.highlightBlock
               /\ sysCall' = SysCallAt("updateHighlightPosition",
                                       IF r.ret = <<>> THEN NoCell ELSE r.ret[1], r.ret # <<>>,
                                       hit.point, hit.normal)
    /\ UNCHANGED <<program, ctlVars>>

\* handleClick(intersection, face, false) with the intersection and the face
\* updateHighlightPosition has just been called with
HandleClickHighlighted ==
    /\ program = "BlockSystemHover"
    /\ sysCall.op = "updateHighlightPosition"
    /\ LET r == handleClick(SysNow, sysCall.point, sysCall.normal, FALSE)
       IN  /\ RoomFor(PlaceTarget(sysCall.point, sysCall.normal))
           /\ SysApply(r, SysCallAt("handleClickLeft", PlaceTarget(sysCall.point, sysCall.normal),
                                    r.ret, sysCall.point, sysCall.normal))
    /\ UNCHANGED <<program, ctlVars>>

\* updateHighlightPosition without an intersection hides the highlight
UpdateHighlightNoIntersection ==
    /\ program = "BlockSystemHover"
    /\ /\ highlightBlock' = hideHighlight(highlightBlock)
       /\ sysCall' = SysCall("updateHighlightNone", NoCell, FALSE)
       /\ UNCHANGED <<blocks, scene, selectedBlockType>>
    /\ UNCHANGED <<program, ctlVars>>

---------------------------------------------------------------------------
(* BlockBuilder, the drag-aware controller (src/unnamed/part_001) *)

dragThreshold == 5

itemsPerPage == 6

Null == "null"

\* The catalog loadBlockModels falls back to when blocks.json cannot be read
FallbackModelFiles == <<"block-grass", "block-grass-large", "block-grass-corner">>

\* Math.ceil(n / d) for naturals
MathCeilDiv(n, d) == (n + d - 1) \div d

\* getKey(pos): pos in world coordinates
getKey(pos) == KeyString(MathRound(pos.x), MathRound(pos.y), MathRound(pos.z))

\* A whole number as a world coordinate
World(n) == n * Res

\* pos rounded, component by component, as a world position
RoundVec(pos) == Vec(World(MathRound(pos.x)), World(MathRound(pos.y)), World(MathRound(pos.z)))

\* The part of a controller's state addBlock and removeBlock work on
GroupState(sel, models, occ, grp) ==
    [selectedModel |-> sel, blockModels |-> models,
     occupiedPositions |-> occ, blocksGroup |-> grp]

ModelReadyAlways(st) == TRUE

\* addBlock's first check: a model is selected and its gltf is loaded
ModelReady(st) == st.selectedModel # Null /\ st.selectedModel \in st.blockModels

IsOccupiedNever(st, key) == FALSE

\* addBlock's second check: the key is in occupiedPositions
IsOccupied(st, key) == key \in st.occupiedPositions

\* addBlock(pos): the state after the call and the value returned
addBlock(st, pos) ==
    IF ~ModelReady(st) THEN [st |-> st, ret |-> FALSE]
    ELSE LET key == getKey(pos)
         IN  IF IsOccupied(st, key) THEN [st |-> st, ret |-> FALSE]
             ELSE LET modelScene == [position |-> RoundVec(pos), positionKey |-> key]
                  IN  [st  |-> [st EXCEPT
                                  !.blocksGroup = @ (+) SetToBag({modelScene}),
                                  !.occupiedPositions = @ \cup {key}],
                       ret |-> TRUE]

\* A node of the scene graph below blocksGroup: the top-level object it
\* belongs to and its depth below it (0: the top-level object itself).
Node(top, depth) == [top |-> top, depth |-> depth]

\* The parent walk of removeBlock and updatePreview: up from the node until
\* the parent is blocksGroup
RECURSIVE TopObject(_)
TopObject(node) ==
    IF node.depth = 0 THEN node.top
    ELSE TopObject(Node(node.top, node.depth - 1))

removeBlockKeepsKey(st, object) ==
    [st EXCEPT !.blocksGroup = @ (-) SetToBag({TopObject(object)})]

removeBlockWithoutWalk(st, object) ==
    IF object.depth # 0 THEN st
    ELSE [st EXCEPT !.occupiedPositions = @ \ {object.top.positionKey},
                    !.blocksGroup = @ (-) SetToBag({object.top})]

\* removeBlock(object): the state after the call
removeBlockOf(st, object) ==
    LET topObject == TopObject(object)
        occ == IF topObject.positionKey # <<>>
               THEN st.occupiedPositions \ {topObject.positionKey}
               ELSE st.occupiedPositions
    IN  [st EXCEPT !.occupiedPositions = occ,
                   !.blocksGroup = @ (-) SetToBag({topObject})]

resetKeepsKeys(st, key) ==
    IF key \in {"r", "R"} THEN [st EXCEPT !.blocksGroup = EmptyBag] ELSE st

resetOnAnyKey(st, key) == [st EXCEPT !.blocksGroup = EmptyBag, !.occupiedPositions = {}]

\* onKeyDown(event): the state after the call
onKeyDown(st, key) ==
    IF key \in {"r", "R"}
    THEN [st EXCEPT !.blocksGroup = EmptyBag, !.occupiedPositions = {}]
    ELSE st

\* A ray hit: nothing, the ground plane at a point, or a node of a block with
\* the world-space normal of the face hit.
NoHit == [kind |-> "none", point |-> NoCell, object |-> Node(NoCell, 0), normal |-> NoCell]

PlaneHit(point) ==
    [kind |-> "plane", point |-> point, object |-> Node(NoCell, 0), normal |-> NoCell]

BlockHit(object, normal) ==
    [kind |-> "block", point |-> NoCell, object |-> object, normal |-> normal]

PreviewGroundKeepsY(point) == point

\* The position updatePreview takes for a hit on the ground plane
PreviewGround(point) == Vec(point.x, 0, point.z)

\* The position updatePreview resolves for a hit, before rounding
PreviewTarget(hit) ==
    IF hit.kind = "plane" THEN PreviewGround(hit.point)
    ELSE VecAdd(TopObject(hit.object).position, hit.normal)

\* updatePreview(): the preview block after the call
updatePreview(preview, hit) ==
    IF hit.kind # "none"
    THEN [visible |-> TRUE, position |-> RoundVec(PreviewTarget(hit))]
    ELSE [preview EXCEPT !.visible = FALSE]

\* positionToKey(g) for a coordinate g
PositionToKey ==
    /\ program = "BlockSystemKeys"
    /\ \E g \in KeyBox :
           sysCall' = SysCall("positionToKey", g, TRUE)
    /\ UNCHANGED <<blocks, scene, selectedBlockType, highlightBlock>>
    /\ UNCHANGED <<program, ctlVars>>

\* keyToPosition(key) for the key positionToKey has just returned: sysCall
\* holds the coordinate that comes back, and the one the key was made from
KeyToPosition ==
    /\ program = "BlockSystemKeys"
    /\ sysCall.op = "positionToKey"
    /\ sysCall' = SysCall("keyToPosition", keyToPosition(positionToKey(sysCall.pos)), TRUE)
    /\ UNCHANGED <<blocks, scene, selectedBlockType, highlightBlock>>
    /\ UNCHANGED <<program, ctlVars>>

\* gridToWorld(g) for a cell g: sysCall holds g and whether the centre was
\* computed without rounding
GridToWorld ==
    /\ program = "BlockSystemCells"
    /\ \E g \in CentreCells :
           sysCall' = SysCall("gridToWorld", g,
                              FloatAdd(gridToWorld(g), NoCell) = gridToWorld(g))
    /\ UNCHANGED <<blocks, scene, selectedBlockType, highlightBlock>>
    /\ UNCHANGED <<program, ctlVars>>

\* worldToGrid(gridToWorld(g) + e) for the cell g of the call before and an
\* offset e: sysCall holds the position worldToGrid is given, the sum as
\* floating point computes it, and whether no step of it was rounded
WorldToGrid ==
    /\ program = "BlockSystemCells"
    /\ sysCall.op = "gridToWorld"
    /\ \E e \in CentreOffsets :
           LET centre == FloatAdd(gridToWorld(sysCall.pos), NoCell)
               position == FloatAdd(centre, e)
           IN  sysCall' = SysCall("worldToGrid", position,
                                  sysCall.ret /\ position = VecAdd(centre, e))
    /\ UNCHANGED <<blocks, scene, selectedBlockType, highlightBlock>>
    /\ UNCHANGED <<program, ctlVars>>

---------------------------------------------------------------------------
(* The drag-aware controller: its events *)

PixelXs == {0, dragThreshold + 1}

PixelYs == {0}

\* Where the pointer moves to in the view of gestures, the press being at
\* (dragThreshold + 1, 0): back there, the threshold away along x or y, and
\* one pixel more
GestureMoves ==
    {<<dragThreshold + 1, 0>>, <<1, 0>>, <<0, 0>>,
     <<dragThreshold + 1, dragThreshold>>, <<dragThreshold + 1, dragThreshold + 1>>}

\* Where the pointer moves to
MovePoints ==
    IF program = "BlockBuilderGestures" THEN GestureMoves
    ELSE {<<x, y>> : x \in PixelXs, y \in PixelYs}

\* Where the pointer is pressed
PressXs == {dragThreshold + 1}

Buttons == {0, 2}

Keys == {"r", "R", "x"}

\* The models whose gltfLoader.load succeeds; the loader is given no error
\* callback, so a failed load changes nothing.
LoadableIds ==
    IF program = "BlockBuilderModels"
    THEN {"block-grass", "block-grass-corner", "block-water"}
    ELSE {FallbackModelFiles[1]}

\* A blocks.json with more models than a page shows, as loadBlockModels has
\* it after sorting by id
JsonModelFiles ==
    <<"block-grass", "block-grass-corner", "block-grass-large", "block-rock",
      "block-sand", "block-snow", "block-water">>

\* The catalogs loadBlockModels ends with: the one of blocks.json, or the
\* fallback when blocks.json cannot be read
Catalogs ==
    IF program = "BlockBuilderGestures" THEN {FallbackModelFiles}
    ELSE {JsonModelFiles, FallbackModelFiles}

\* The pagination buttons
PageButtons == {"prev-page", "next-page"}

\* The ground points the pointer hits: each cell's centre, and a corner of
\* the cell a hair above the plane (the plane is at y = 0; the hit point is
\* computed in floating point)
GroundPoints ==
    {Vec(World(c), 0, 0) : c \in Coords} \cup {Vec(-Half, 1, -Half)}

\* World-space unit normals of the faces hit
WorldNormals == {VecScale(n, Res) : n \in FaceNormals}

\* World-space unit normals of faces that lie on no axis plane, as a model
\* with a bevelled edge has: 45 degrees between -x and +y, each component
\* (0.707...) to the resolution of the model
SlantedNormals == {Vec(-((3 * Res) \div 4), (3 * Res) \div 4, 0)}

\* Depths, below a block's top-level object, of the meshes a ray hits
NodeDepths == 1 .. MaxDepth

RegionWorld == {VecScale(c, Res) : c \in Region}

\* The hits a ray through the scene can give: the model keeps the pointer on
\* targets inside Region
SceneHits(grp) ==
    {NoHit} \cup {PlaneHit(p) : p \in GroundPoints}
    \cup {h \in {BlockHit(Node(top, MaxDepth), n) :
                    top \in BagToSet(grp), n \in WorldNormals \cup SlantedNormals} :
            RoundVec(PreviewTarget(h)) \in RegionWorld}

\* The same in the view of gestures: nothing, the ground at the origin, the
\* top of a block
GestureHits(grp) ==
    {NoHit, PlaneHit(NoCell)}
    \cup {h \in {BlockHit(Node(top, MaxDepth), Vec(0, World(1), 0)) : top \in BagToSet(grp)} :
            RoundVec(PreviewTarget(h)) \in RegionWorld}

PointerHits(grp) ==
    IF program = "BlockBuilderGestures" THEN GestureHits(grp) ELSE SceneHits(grp)

\* The hits of a ray cast against the blocks alone
BlockHits(grp) ==
    {NoHit} \cup {BlockHit(Node(top, d), Vec(0, World(1), 0)) :
                    top \in BagToSet(grp), d \in NodeDepths}

\* The handler that ran last, what it did, and a number the handler saw: the
\* height of the ground point hit or the x of the normal of the block face hit
\* (onMouseMove), the depth of the node hit (onMouseDown), 1 if there were
\* blocks before it ran and 0 if not (onKeyDown)
EventWith(handler, ret, detail) == [handler |-> handler, ret |-> ret, detail |-> detail]

Event(handler, ret) == EventWith(handler, ret, 0)

GroupNow == GroupState(selectedModel, blockModels, occupiedPositions, blocksGroup)

ApplyGroup(st) ==
    /\ selectedModel' = st.selectedModel
    /\ blockModels' = st.blockModels
    /\ occupiedPositions' = st.occupiedPositions
    /\ blocksGroup' = st.blocksGroup

NoPagination == [itemsPerPage |-> 0, currentPage |-> 0, totalItems |-> 0, totalPages |-> 0]

\* The gltfLoader.load calls updatePagination starts for the page's models
BackgroundLoads(files, pg) ==
    LET startIndex == (pg.currentPage - 1) * pg.itemsPerPage
        endIndex == IF startIndex + pg.itemsPerPage < pg.totalItems
                    THEN startIndex + pg.itemsPerPage ELSE pg.totalItems
    IN  {[kind |-> "background", id |-> files[i + 1], index |-> i - startIndex] :
            i \in startIndex .. (endIndex - 1)}

\* The models with an option on the current page
VisibleIds(files, pg) == {l.id : l \in BackgroundLoads(files, pg)}

Started(loads) == {l \in loads : l.id \in LoadableIds}

\* The views of the drag-aware controller: the whole of it, its button
\* gestures, its model loader
Controllers == {"BlockBuilder", "BlockBuilderGestures", "BlockBuilderModels"}

\* loadBlockModels: the catalog arrives, pagination is set up and
\* updatePagination runs
LoadBlockModels ==
    /\ program \in Controllers
    /\ \E files \in Catalogs :
           /\ allModelFiles = <<>>
           /\ allModelFiles' = files
           /\ pagination' = [itemsPerPage |-> itemsPerPage, currentPage |-> 1,
                             totalItems |-> Len(files),
                             totalPages |-> MathCeilDiv(Len(files), itemsPerPage)]
           /\ pendingLoads' = pendingLoads \cup Started(BackgroundLoads(files, pagination'))
           /\ UNCHANGED <<groupVars, previewBlock, blockModels, selectedModel, loader, dragVars,
                          scenario, event>>
    /\ UNCHANGED <<program, sysVars>>

\* The page after a click on a pagination button
pageAfter(pg, button) ==
    IF button = "prev-page" /\ pg.currentPage > 1
    THEN [pg EXCEPT !.currentPage = @ - 1]
    ELSE IF button = "next-page" /\ pg.currentPage < pg.totalPages
    THEN [pg EXCEPT !.currentPage = @ + 1]
    ELSE pg

\* The click handlers of the pagination buttons; loadBlockModels adds them
\* when blocks.json was read, not in the fallback
PageClick ==
    /\ program \in {"BlockBuilder", "BlockBuilderModels"}
    /\ allModelFiles = JsonModelFiles
    /\ \E button \in PageButtons :
           /\ pagination' = pageAfter(pagination, button)
           /\ pendingLoads' =
                IF pagination' # pagination
                THEN pendingLoads \cup Started(BackgroundLoads(allModelFiles, pagination'))
                ELSE pendingLoads
           /\ UNCHANGED <<groupVars, previewBlock, blockModels, selectedModel, allModelFiles,
                          loader, dragVars, scenario, event>>
    /\ UNCHANGED <<program, sysVars>>

\* onWindowResize(): camera and renderer only
OnWindowResize ==
    /\ program = "BlockBuilder"
    /\ UNCHANGED <<groupVars, previewBlock, modelVars, dragVars, scenario, event>>
    /\ UNCHANGED <<program, sysVars>>

\* selectModel(modelId): the new selection
selectModel(sel, modelId) == modelId

\* selectModel records itself as the last event when it changes the selection
SelectEvent(cause) ==
    IF selectedModel' # selectedModel THEN Event("selectModel", cause) ELSE event

\* The loader's record, kept in the view of the loader
NoLoad == [kind |-> "none", id |-> Null, index |-> 0]

NoLoader == [clicked |-> Null, done |-> NoLoad, found |-> Null, page |-> 0]

LoaderOnClick(ld, id) ==
    IF program # "BlockBuilderModels" THEN ld ELSE [ld EXCEPT !.clicked = id]

LoaderOnDone(ld, l, sel, pg) ==
    IF program # "BlockBuilderModels" THEN ld
    ELSE [ld EXCEPT !.done = l, !.found = sel, !.page = pg.currentPage]

isLoadedAlways(models, id) == TRUE

\* The option's click handler finds the model in blockModels
isLoaded(models, id) == id \in models

\* The click handler of a model's option
OptionClick ==
    /\ program \in {"BlockBuilder", "BlockBuilderModels"}
    /\ \E id \in VisibleIds(allModelFiles, pagination) :
           /\ IF ~isLoaded(blockModels, id)
              THEN /\ pendingLoads' = pendingLoads \cup Started({[kind |-> "click", id |-> id, index |-> 0]})
                   /\ UNCHANGED selectedModel
              ELSE /\ selectedModel' = selectModel(selectedModel, id)
                   /\ UNCHANGED pendingLoads
           /\ event' = SelectEvent("optionClick")
           /\ loader' = LoaderOnClick(loader, id)
           /\ UNCHANGED <<groupVars, previewBlock, blockModels, allModelFiles, pagination, dragVars,
                          scenario>>
    /\ UNCHANGED <<program, sysVars>>

defaultsOnLoadOnAnyPage(pg, index, sel) == index = 0 /\ sel = Null

defaultsOnLoadWhenSelected(pg, index, sel) == pg.currentPage = 1 /\ index = 0

\* The callback of a background load makes its model the default: the first
\* of its page, while the first page shows and no model is selected
defaultsOnLoad(pg, index, sel) == pg.currentPage = 1 /\ index = 0 /\ sel = Null

\* A gltfLoader.load callback runs
LoadDone ==
    /\ program \in Controllers
    /\ \E l \in pendingLoads :
           /\ pendingLoads' = pendingLoads \ {l}
           /\ blockModels' = blockModels \cup {l.id}
           /\ selectedModel' =
                IF l.kind = "click" THEN selectModel(selectedModel, l.id)
                ELSE IF defaultsOnLoad(pagination, l.index, selectedModel)
                     THEN selectModel(selectedModel, l.id)
                     ELSE selectedModel
           /\ event' = SelectEvent(l.kind)
           /\ loader' = LoaderOnDone(loader, l, selectedModel, pagination)
           /\ UNCHANGED <<groupVars, previewBlock, allModelFiles, pagination, dragVars, scenario>>
    /\ UNCHANGED <<program, sysVars>>

\* The scenario: with a loaded model selected and no block placed, a click
\* with the preview at (0,0,0); the same click again; a pointer-move over the
\* +x face of the block at (0,0,0) and a click; a right click on the block at
\* (0,0,0); the reset key. scenario lists the outcomes of the steps taken so
\* far ("aimed" for the pointer-move); an event that changes the blocks
\* outside this order empties it.
Origin == Vec(0, 0, 0)

ScenarioOnMove(sc, hit, before, after) ==
    IF /\ Len(sc) = 2 /\ hit.kind = "block"
       /\ TopObject(hit.object).position = Origin /\ hit.normal = Vec(World(1), 0, 0)
    THEN Append(sc, "aimed")
    ELSE IF Len(sc) = 3 /\ after # before THEN SubSeq(sc, 1, 2)
    ELSE sc

ScenarioOnUp(sc, st, preview, places, ret) ==
    LET outcome == IF ret THEN "added" ELSE "rejected"
    IN  IF ~places THEN sc
        ELSE IF /\ Len(sc) = 0 /\ st.occupiedPositions = {} /\ st.blocksGroup = EmptyBag
                /\ ModelReady(st) /\ RoundVec(preview.position) = Origin
             THEN <<outcome>>
        ELSE IF Len(sc) = 1 /\ RoundVec(preview.position) = Origin THEN Append(sc, outcome)
        ELSE IF Len(sc) = 3 THEN Append(sc, outcome)
        ELSE <<>>

ScenarioOnDown(sc, removes, object) ==
    IF ~removes THEN sc
    ELSE IF Len(sc) = 4 /\ TopObject(object).position = Origin THEN Append(sc, "removed")
    ELSE <<>>

ScenarioOnKey(sc, key) ==
    IF key \notin {"r", "R"} THEN sc
    ELSE IF Len(sc) = 5 THEN Append(sc, "reset")
    ELSE <<>>

\* The primary press, in the view of gestures: none, down, or up (just
\* ended); whether it began on the interface and where; whether a pointer-move
\* went beyond the threshold from there (far), whether the last pointer-move
\* came back there after one that did (back), whether an event of the other
\* button came in (others)
Press(state, onUI, x, y) ==
    [state |-> state, onUI |-> onUI, x |-> x, y |-> y,
     far |-> FALSE, back |-> FALSE, others |-> FALSE]

NoPress == Press("none", FALSE, 0, 0)

PressOnMove(pr, clientX, clientY) ==
    IF pr.state # "down" THEN pr
    ELSE LET beyond == \/ Abs(clientX - pr.x) > dragThreshold
                       \/ Abs(clientY - pr.y) > dragThreshold
         IN  [pr EXCEPT !.far = @ \/ beyond,
                        !.back = (pr.far \/ beyond) /\ clientX = pr.x /\ clientY = pr.y]

PressOnDown(pr, button, clientX, clientY, onUI) ==
    IF program # "BlockBuilderGestures" THEN pr
    ELSE IF button = 0 THEN Press("down", onUI, clientX, clientY)
    ELSE IF pr.state = "down" THEN [pr EXCEPT !.others = TRUE]
    ELSE NoPress

PressOnUp(pr, button) ==
    IF pr.state # "down" THEN NoPress
    ELSE IF button = 0 THEN [pr EXCEPT !.state = "up"]
    ELSE [pr EXCEPT !.others = TRUE]

dragsOnMoveUnlatched(dragging, clientX, clientY, startX, startY) ==
    \/ Abs(clientX - startX) > dragThreshold
    \/ Abs(clientY - startY) > dragThreshold

\* isDragging after onMouseMove's check of the distance from the drag start
dragsOnMove(dragging, clientX, clientY, startX, startY) ==
    IF ~dragging /\ (\/ Abs(clientX - startX) > dragThreshold
                     \/ Abs(clientY - startY) > dragThreshold)
    THEN TRUE ELSE dragging

\* onMouseMove(event)
OnMouseMove ==
    /\ program \in {"BlockBuilder", "BlockBuilderGestures"}
    /\ \E client \in MovePoints, hit \in PointerHits(blocksGroup) :
           /\ isDragging' = dragsOnMove(isDragging, client[1], client[2], dragStartX, dragStartY)
           /\ previewBlock' = updatePreview(previewBlock, hit)
           /\ event' = EventWith("onMouseMove", hit.kind,
                                 IF hit.kind = "block" THEN hit.normal.x ELSE hit.point.y)
           /\ scenario' = ScenarioOnMove(scenario, hit, previewBlock, previewBlock')
           /\ press' = PressOnMove(press, client[1], client[2])
           /\ UNCHANGED <<groupVars, modelVars, dragStartX, dragStartY, clickedOnUI, gesture>>
    /\ UNCHANGED <<program, sysVars>>

\* A button gesture: idle, under way since a primary or secondary pointer-down
\* (with where it started and whether on the interface), or a primary gesture
\* released (with where the pointer was let go)
Gesture(state, onUI, x, y, upX, upY) ==
    [state |-> state, onUI |-> onUI, x |-> x, y |-> y, upX |-> upX, upY |-> upY]

Idle == Gesture("idle", FALSE, 0, 0, 0, 0)

\* Where the pointer is let go: where it was pressed, or beyond the drag
\* threshold from there along one axis
ReleasePoints ==
    {<<0, 0>>, <<dragThreshold + 1, 0>>, <<0, dragThreshold + 1>>}

gestureStartKeepsFlag(onUIBefore, clientX, clientY, onUI) ==
    [clickedOnUI |-> onUIBefore, dragStartX |-> clientX, dragStartY |-> clientY,
     isDragging |-> FALSE]

\* What onMouseDown records of the gesture's start
gestureStart(onUIBefore, clientX, clientY, onUI) ==
    [clickedOnUI |-> onUI, dragStartX |-> clientX, dragStartY |-> clientY,
     isDragging |-> FALSE]

\* onMouseDown removes a block: a right click whose ray hits one
removesOnDown(button, hit) == button = 2 /\ hit.kind # "none"

placesOnUpIgnoringUI(button, dragging, onUI, preview) ==
    button = 0 /\ ~dragging /\ preview.visible

\* onMouseUp calls addBlock: a left click, not a drag, not begun on the
\* interface, with the preview showing
placesOnUp(button, dragging, onUI, preview) ==
    button = 0 /\ ~dragging /\ ~onUI /\ preview.visible

\* onMouseDown(event)
OnMouseDown ==
    /\ program \in {"BlockBuilder", "BlockBuilderGestures"}
    /\ \E button \in Buttons, clientX \in PressXs, clientY \in PixelYs, onUI \in BOOLEAN :
         \E hit \in IF button = 2 THEN BlockHits(blocksGroup) ELSE {NoHit} :
           LET start == gestureStart(clickedOnUI, clientX, clientY, onUI)
           IN  /\ clickedOnUI' = start.clickedOnUI
               /\ dragStartX' = start.dragStartX
               /\ dragStartY' = start.dragStartY
               /\ isDragging' = start.isDragging
               /\ IF removesOnDown(button, hit)
                  THEN ApplyGroup(removeBlockOf(GroupNow, hit.object))
                  ELSE UNCHANGED <<groupVars, blockModels, selectedModel>>
               /\ gesture' = Gesture(IF button = 0 THEN "primary" ELSE "secondary",
                                     onUI, clientX, clientY, 0, 0)
               /\ press' = PressOnDown(press, button, clientX, clientY, onUI)
               /\ event' = EventWith("onMouseDown",
                                     IF removesOnDown(button, hit) THEN "removed" ELSE "",
                                     hit.object.depth)
               /\ scenario' = ScenarioOnDown(scenario, removesOnDown(button, hit), hit.object)
               /\ UNCHANGED <<previewBlock, allModelFiles, pagination, pendingLoads, loader>>
    /\ UNCHANGED <<program, sysVars>>

\* onMouseUp(event)
OnMouseUp ==
    /\ program \in {"BlockBuilder", "BlockBuilderGestures"}
    /\ \E button \in Buttons, client \in ReleasePoints :
           LET clientX == client[1]
               clientY == client[2]
               places == placesOnUp(button, isDragging, clickedOnUI, previewBlock)
               r == addBlock(GroupNow, previewBlock.position)
           IN  /\ places => BagCardinality(r.st.blocksGroup) <= MaxBlocks
               /\ IF places THEN ApplyGroup(r.st)
                  ELSE UNCHANGED <<groupVars, blockModels, selectedModel>>
               /\ isDragging' = FALSE
               /\ clickedOnUI' = FALSE
               /\ gesture' = IF gesture.state = "primary" /\ button = 0
                             THEN [gesture EXCEPT !.state = "released",
                                                  !.upX = clientX, !.upY = clientY]
                             ELSE Idle
               /\ press' = PressOnUp(press, button)
               /\ event' = Event("onMouseUp",
                                 IF ~places THEN "" ELSE IF r.ret THEN "added" ELSE "rejected")
               /\ scenario' = ScenarioOnUp(scenario, GroupNow, previewBlock, places, r.ret)
               /\ UNCHANGED <<previewBlock, allModelFiles, pagination, pendingLoads, loader,
                              dragStartX, dragStartY>>
    /\ UNCHANGED <<program, sysVars>>

\* onKeyDown(event)
OnKeyDown ==
    /\ program = "BlockBuilder"
    /\ \E key \in Keys :
           /\ ApplyGroup(onKeyDown(GroupNow, key))
           /\ event' = EventWith("onKeyDown", key, IF blocksGroup = EmptyBag THEN 0 ELSE 1)
           /\ scenario' = ScenarioOnKey(scenario, key)
           /\ UNCHANGED <<previewBlock, allModelFiles, pagination, pendingLoads, loader, dragVars>>
    /\ UNCHANGED <<program, sysVars>>

---------------------------------------------------------------------------
(* BlockBuilder, the simple click-to-place controller (src/unnamed/part_000) *)

\* addBlock(pos, color): the state after the call; the block carries no
\* positionKey, and its colour is a rendering attribute
SimpleAddBlock(st, pos) ==
    LET block == [position |-> RoundVec(pos), positionKey |-> <<>>]
    IN  [st EXCEPT !.blocksGroup = @ (+) SetToBag({block}),
                   !.occupiedPositions = @ \cup {getKey(block.position)}]

\* removeBlock(block): the state after the call
SimpleRemoveBlock(st, block) ==
    [st EXCEPT !.blocksGroup = @ (-) SetToBag({block}),
               !.occupiedPositions = @ \ {getKey(block.position)}]

\* The position taken for a hit on the ground plane
SimpleGround(point) == Vec(point.x, 0, point.z)

\* The position updatePreview and onMouseDown resolve for a hit: the rays
\* are cast without recursion, so the object hit is the block itself, and
\* the face normal is used as it is
SimpleTarget(hit) ==
    IF hit.kind = "plane" THEN SimpleGround(hit.point)
    ELSE VecAdd(hit.object.top.position, hit.normal)

\* updatePreview(): the preview block after the call
SimpleUpdatePreview(preview, hit) ==
    IF hit.kind # "none"
    THEN [visible |-> TRUE, position |-> RoundVec(SimpleTarget(hit))]
    ELSE [preview EXCEPT !.visible = FALSE]

\* The left-click branch of onMouseDown for a hit: the state after it and
\* whether a block was added
SimplePlace(st, hit) ==
    IF hit.kind = "none" THEN [st |-> st, ret |-> FALSE]
    ELSE LET newPos == SimpleTarget(hit)
         IN  IF getKey(newPos) \notin st.occupiedPositions
             THEN [st |-> SimpleAddBlock(st, newPos), ret |-> TRUE]
             ELSE [st |-> st, ret |-> FALSE]

SimpleSceneHits(grp) ==
    {NoHit} \cup {PlaneHit(p) : p \in GroundPoints}
    \cup {h \in {BlockHit(Node(top, 0), n) : top \in BagToSet(grp), n \in WorldNormals} :
            RoundVec(SimpleTarget(h)) \in RegionWorld}

SimpleBlockHits(grp) ==
    {NoHit} \cup {BlockHit(Node(top, 0), Vec(0, World(1), 0)) : top \in BagToSet(grp)}

SimpleOnMouseMove ==
    /\ program = "BlockBuilderSimple"
    /\ \E hit \in SimpleSceneHits(blocksGroup) :
           /\ previewBlock' = SimpleUpdatePreview(previewBlock, hit)
           /\ event' = EventWith("onMouseMove", hit.kind, hit.point.y)
           /\ UNCHANGED <<groupVars, modelVars, dragVars, scenario>>
    /\ UNCHANGED <<program, sysVars>>

SimpleOnMouseDown ==
    /\ program = "BlockBuilderSimple"
    /\ \/ \E hit \in SimpleSceneHits(blocksGroup) :
              LET r == SimplePlace(GroupNow, hit)
              IN  /\ BagCardinality(r.st.blocksGroup) <= MaxBlocks
                  /\ ApplyGroup(r.st)
                  /\ event' = Event("onMouseDown",
                                    IF hit.kind = "none" THEN ""
                                    ELSE IF r.ret THEN "added" ELSE "rejected")
                  /\ UNCHANGED <<previewBlock, allModelFiles, pagination, pendingLoads, loader, dragVars,
                                 scenario>>
       \/ \E hit \in SimpleBlockHits(blocksGroup) :
              /\ IF hit.kind # "none"
                 THEN ApplyGroup(SimpleRemoveBlock(GroupNow, hit.object.top))
                 ELSE UNCHANGED <<groupVars, blockModels, selectedModel>>
              /\ event' = Event("onMouseDown", IF hit.kind # "none" THEN "removed" ELSE "")
              /\ UNCHANGED <<previewBlock, allModelFiles, pagination, pendingLoads, loader, dragVars,
                             scenario>>
    /\ UNCHANGED <<program, sysVars>>

SimpleOnKeyDown ==
    /\ program = "BlockBuilderSimple"
    /\ \E key \in Keys :
           /\ ApplyGroup(onKeyDown(GroupNow, key))
           /\ event' = EventWith("onKeyDown", key, IF blocksGroup = EmptyBag THEN 0 ELSE 1)
           /\ UNCHANGED <<previewBlock, allModelFiles, pagination, pendingLoads, loader, dragVars, scenario>>
    /\ UNCHANGED <<program, sysVars>>

---------------------------------------------------------------------------
(* The programs *)

CtlInit ==
    /\ blocksGroup = EmptyBag
    /\ occupiedPositions = {}
    /\ previewBlock = [visible |-> FALSE, position |-> NoCell]
    /\ blockModels = {}
    /\ selectedModel = Null
    /\ allModelFiles = <<>>
    /\ pagination = NoPagination
    /\ pendingLoads = {}
    /\ loader = NoLoader
    /\ isDragging = FALSE
    /\ dragStartX = 0
    /\ dragStartY = 0
    /\ clickedOnUI = FALSE
    /\ gesture = Idle
    /\ press = NoPress
    /\ scenario = <<>>
    /\ event = Event("constructor", "")

\* The programs run side by side; the two closer views of the drag-aware
\* controller have specifications of their own below
Programs ==
    {"BlockSystem", "BlockSystemHover", "BlockSystemKeys", "BlockSystemCells",
     "BlockBuilder", "BlockBuilderSimple"}

Init == program \in Programs /\ SysInit /\ CtlInit

Next ==
    \/ SetSelectedBlockType
    \/ PlaceBlock
    \/ RemoveBlock
    \/ HandleClick
    \/ HandleClickNoIntersection
    \/ UpdateHighlightPosition
    \/ UpdateHighlightNoIntersection
    \/ HandleClickHighlighted
    \/ PositionToKey
    \/ KeyToPosition
    \/ GridToWorld
    \/ WorldToGrid
    \/ LoadBlockModels
    \/ OptionClick
    \/ PageClick
    \/ OnWindowResize
    \/ LoadDone
    \/ OnMouseMove
    \/ OnMouseDown
    \/ OnMouseUp
    \/ OnKeyDown
    \/ SimpleOnMouseMove
    \/ SimpleOnMouseDown
    \/ SimpleOnKeyDown

Spec == Init /\ [][Next]_vars

\* BlockSystem alone, driven by direct calls and clicks
InitBlockSystem == program = "BlockSystem" /\ SysInit /\ CtlInit

NextBlockSystem ==
    \/ SetSelectedBlockType
    \/ PlaceBlock
    \/ RemoveBlock
    \/ HandleClick
    \/ HandleClickNoIntersection

SpecBlockSystem == InitBlockSystem /\ [][NextBlockSystem]_vars

\* BlockSystem with a client that shows the highlight and clicks where it is
InitBlockSystemHover == program = "BlockSystemHover" /\ SysInit /\ CtlInit

NextBlockSystemHover ==
    \/ PlaceBlock
    \/ RemoveBlock
    \/ UpdateHighlightPosition
    \/ UpdateHighlightNoIntersection
    \/ HandleClickHighlighted

SpecBlockSystemHover == InitBlockSystemHover /\ [][NextBlockSystemHover]_vars

\* BlockSystem's key functions alone
InitBlockSystemKeys == program = "BlockSystemKeys" /\ SysInit /\ CtlInit

NextBlockSystemKeys ==
    \/ PositionToKey
    \/ KeyToPosition

SpecBlockSystemKeys == InitBlockSystemKeys /\ [][NextBlockSystemKeys]_vars

\* BlockSystem's conversions between cells and world positions alone
InitBlockSystemCells == program = "BlockSystemCells" /\ SysInit /\ CtlInit

NextBlockSystemCells ==
    \/ GridToWorld
    \/ WorldToGrid

SpecBlockSystemCells == InitBlockSystemCells /\ [][NextBlockSystemCells]_vars

\* The drag-aware controller alone
InitBlockBuilder == program = "BlockBuilder" /\ SysInit /\ CtlInit

NextBlockBuilder ==
    \/ LoadBlockModels
    \/ OptionClick
    \/ PageClick
    \/ OnWindowResize
    \/ LoadDone
    \/ OnMouseMove
    \/ OnMouseDown
    \/ OnMouseUp
    \/ OnKeyDown

SpecBlockBuilder == InitBlockBuilder /\ [][NextBlockBuilder]_vars

\* The drag-aware controller's button gestures: the fallback catalog, a small
\* scene, pointer-moves on both sides of the drag threshold
InitBlockBuilderGestures == program = "BlockBuilderGestures" /\ SysInit /\ CtlInit

NextBlockBuilderGestures ==
    \/ LoadBlockModels
    \/ LoadDone
    \/ OnMouseMove
    \/ OnMouseDown
    \/ OnMouseUp

SpecBlockBuilderGestures == InitBlockBuilderGestures /\ [][NextBlockBuilderGestures]_vars

\* The drag-aware controller's model loader: options, pages and load
\* callbacks, with models that load on both pages
InitBlockBuilderModels == program = "BlockBuilderModels" /\ SysInit /\ CtlInit

NextBlockBuilderModels ==
    \/ LoadBlockModels
    \/ OptionClick
    \/ PageClick
    \/ LoadDone

SpecBlockBuilderModels == InitBlockBuilderModels /\ [][NextBlockBuilderModels]_vars

---------------------------------------------------------------------------
(* Properties *)

\* The cells and positions the properties below call the operations with
CellBox == {Vec(a, b, c) : a \in SignedCoords, b \in SignedCoords, c \in SignedCoords}

\* World positions of cells of one vertical slice of the box
BoxPositions == {VecScale(c, Res) : c \in {b \in CellBox : b.z = 0}}

CatalogEntries == {BLOCK_TYPES[k] : k \in DOMAIN BLOCK_TYPES}

ModelIds == {FallbackModelFiles[i] : i \in DOMAIN FallbackModelFiles}

\* The number of children of grp that carry the key
ChildrenAt(grp, key) ==
    BagCardinality([o \in {c \in BagToSet(grp) : c.positionKey = key} |-> grp[o]])

\* The number of meshes of scn at the position placeBlock gives cell g
MeshesAt(scn, g) ==
    BagCardinality([m \in {c \in BagToSet(scn) : c.position = MeshPosition(g)} |-> scn[m]])

\* C1: in the drag-aware controller, in every reachable state,
\* occupiedPositions is the set of the positionKey values of the children of
\* blocksGroup, no two children carry the same positionKey, and
\* occupiedPositions has as many members as blocksGroup has children.
C1_OccupiedMatchesChildren ==
    program = "BlockBuilder" =>
        /\ occupiedPositions = {o.positionKey : o \in BagToSet(blocksGroup)}
        /\ \A key \in occupiedPositions : ChildrenAt(blocksGroup, key) = 1
        /\ Cardinality(occupiedPositions) = BagCardinality(blocksGroup)

\* A block was removed by a right click and another block is still there
C1_Witness ==
    /\ program = "BlockBuilder"
    /\ event.handler = "onMouseDown" /\ event.ret = "removed"
    /\ occupiedPositions # {}

\* C2: from every reachable state and for every empty cell g, two placements
\* at g in a row (BlockSystem.placeBlock; BlockBuilder.addBlock with a loaded
\* model selected) succeed and then fail, and leave one record and one visual
\* instance for g.
C2_SecondPlacementRejected ==
    /\ program = "BlockSystem" =>
         \A g \in CellBox :
            ~(positionToKey(g) \in DOMAIN blocks) =>
                LET first == placeBlock(SysNow, g)
                    second == placeBlock(first.st, g)
                IN  /\ first.ret /\ ~second.ret
                    /\ positionToKey(g) \in DOMAIN second.st.blocks
                    /\ Cardinality(DOMAIN second.st.blocks) = Cardinality(DOMAIN blocks) + 1
                    /\ MeshesAt(second.st.scene, g) = 1
    /\ (/\ program = "BlockBuilder"
        /\ selectedModel # Null /\ selectedModel \in blockModels) =>
         \A pos \in BoxPositions :
            getKey(pos) \notin occupiedPositions =>
                LET first == addBlock(GroupNow, pos)
                    second == addBlock(first.st, pos)
                IN  /\ first.ret /\ ~second.ret
                    /\ getKey(pos) \in second.st.occupiedPositions
                    /\ Cardinality(second.st.occupiedPositions) =
                         Cardinality(occupiedPositions) + 1
                    /\ ChildrenAt(second.st.blocksGroup, getKey(pos)) = 1

\* placeBlock(g) succeeded and the next call, placeBlock(g) again, failed
C2_Witness ==
    /\ program = "BlockSystem"
    /\ sysCall.op = "placeBlock" /\ ~sysCall.ret
    /\ sysCall.prev.op = "placeBlock" /\ sysCall.prev.ret
    /\ sysCall.prev.pos = sysCall.pos
    /\ MeshesAt(scene, sysCall.pos) = 1

\* C3: from every reachable occupancy map and for every cell g without a
\* record, placeBlock(g) and then removeBlock(g) both return true and the map
\* is what it was.
C3_PlaceThenRemove ==
    program = "BlockSystem" =>
        \A g \in CellBox :
            ~(positionToKey(g) \in DOMAIN blocks) =>
                LET placed == placeBlock(SysNow, g)
                    removed == removeBlock(placed.st, g)
                IN  /\ placed.ret /\ removed.ret
                    /\ positionToKey(g) \notin DOMAIN removed.st.blocks
                    /\ removed.st.blocks = blocks

\* placeBlock(g) and then removeBlock(g) were called, both returned true, and
\* the map holds another record
C3_Witness ==
    /\ program = "BlockSystem"
    /\ sysCall.op = "removeBlock" /\ sysCall.ret
    /\ sysCall.prev.op = "placeBlock" /\ sysCall.prev.ret
    /\ sysCall.prev.pos = sysCall.pos
    /\ DOMAIN blocks # {}

\* C4: removeBlock(g) for a cell g without a block returns false and leaves
\* the map, the scene and the selected block type as they were.
C4_RemoveEmptyCell ==
    program = "BlockSystem" =>
        \A g \in CellBox :
            ~(positionToKey(g) \in DOMAIN blocks) =>
                LET r == removeBlock(SysNow, g)
                IN  /\ ~r.ret
                    /\ r.st.blocks = blocks
                    /\ r.st.scene = scene
                    /\ r.st.selectedBlockType = selectedBlockType

\* removeBlock was called for an empty cell while another cell held a block
C4_Witness ==
    /\ program = "BlockSystem"
    /\ sysCall.op = "removeBlock" /\ ~sysCall.ret
    /\ ~hasBlock(blocks, sysCall.pos)
    /\ DOMAIN blocks # {}
    /\ scene # EmptyBag

\* C5: addBlock(pos) with no model selected, or with a selected model that is
\* not loaded, returns false and changes neither occupiedPositions nor the
\* children of blocksGroup, for occupied and for empty cells alike.
C5_AddBlockWithoutModel ==
    program = "BlockBuilder" =>
        \A sel \in ModelIds \cup {Null}, pos \in BoxPositions :
            \A models \in {blockModels \ {sel}} \cup {m \in {blockModels} : sel = Null} :
                LET r == addBlock(GroupState(sel, models, occupiedPositions, blocksGroup), pos)
                IN  /\ ~r.ret
                    /\ r.st.occupiedPositions = occupiedPositions
                    /\ r.st.blocksGroup = blocksGroup

\* A click reached addBlock while no model was selected, and was rejected
C5_Witness ==
    /\ program = "BlockBuilder"
    /\ event.handler = "onMouseUp" /\ event.ret = "rejected"
    /\ selectedModel = Null
    /\ previewBlock.visible
    /\ blocksGroup = EmptyBag /\ occupiedPositions = {}

\* C6: setSelectedBlockType(id) returns true and selects the catalog entry
\* of id exactly when id is a key of BLOCK_TYPES, returns false and leaves the
\* selection alone for every other id, and so the selected block type is
\* always an entry of the catalog.
\* Fails: an id that names a member of Object.prototype ("constructor") is
\* found by BLOCK_TYPES[id] and is selected.
C6_SelectOnlyCatalogEntries ==
    program = "BlockSystem" =>
        /\ selectedBlockType \in CatalogEntries
        /\ \A id \in TypeIds :
              LET r == setSelectedBlockType(selectedBlockType, id)
              IN  IF id \in DOMAIN BLOCK_TYPES
                  THEN r.ret /\ r.selectedBlockType = BLOCK_TYPES[id]
                  ELSE ~r.ret /\ r.selectedBlockType = selectedBlockType

\* C7: the reset key ('r' or 'R') leaves, from every reachable state of the
\* drag-aware controller, occupiedPositions empty and blocksGroup without
\* children, and blockModels and selectedModel as they were.
C7_ResetClearsBlocksOnly ==
    program = "BlockBuilder" =>
        \A key \in {"r", "R"} :
            LET st == onKeyDown(GroupNow, key)
            IN  /\ st.occupiedPositions = {}
                /\ st.blocksGroup = EmptyBag
                /\ st.blockModels = blockModels
                /\ st.selectedModel = selectedModel

\* The reset key was pressed while blocks were placed and a loaded model was
\* selected
C7_Witness ==
    /\ program = "BlockBuilder"
    /\ event.handler = "onKeyDown" /\ event.ret \in {"r", "R"}
    /\ event.detail > 0
    /\ blocksGroup = EmptyBag /\ occupiedPositions = {}
    /\ selectedModel # Null /\ selectedModel \in blockModels

\* C8: for every block placeBlock placed at a cell g, every face normal n and
\* every point of the face with normal n of the cube drawn for g, a left
\* click there targets the cell g + n.
\* Fails: the cube is centred on g * blockSize and worldToGrid floors, so a
\* hit on the cube's lower half along another axis resolves one cell off.
C8_FaceClickTargetsNeighbour ==
    program = "BlockSystem" =>
        \A key \in DOMAIN blocks :
            \A n \in FaceNormals :
                \A point \in FacePoints(blocks[key], n) :
                    PlaceTarget(point, n) = VecAdd(keyToPosition(key), n)

\* C9: for every block placeBlock placed at a cell g and every point of the
\* surface of the cube drawn for g, a right click there returns true, removes
\* the record of g and removes no other record.
\* Fails for the same reason: the hit point floors to a cell before g.
C9_RightClickRemovesHitBlock ==
    program = "BlockSystem" =>
        \A key \in DOMAIN blocks :
            \A n \in FaceNormals :
                \A point \in FacePoints(blocks[key], n) :
                    LET r == handleClick(SysNow, point, n, TRUE)
                    IN  /\ r.ret
                        /\ DOMAIN r.st.blocks = DOMAIN blocks \ {key}

\* The heights the properties take ground hits at: the plane's, and heights
\* that round to another layer
HitHeights == {-Res, 0, 1, Half}

\* The horizontal coordinates of the ground hits: every point from half a
\* cell before the first cell to half a cell after the last
HitSpan == (World(-1) - Half) .. (World(MaxCoord) + Half)

\* C10: for a hit on the ground plane, the cell updatePreview resolves, and
\* the cell the simple controller's onMouseDown places at, has height 0 and
\* the horizontal coordinates Math.round gives the hit point's x and z,
\* whatever the height of the hit point.
C10_GroundHitPinsHeight ==
    /\ program = "BlockBuilder" =>
         \A px \in HitSpan, py \in HitHeights :
            LET preview == updatePreview(previewBlock, PlaneHit(Vec(px, py, -px)))
            IN  /\ preview.visible
                /\ preview.position = Vec(World(MathRound(px)), 0, World(MathRound(-px)))
    /\ program = "BlockBuilderSimple" =>
         \A px \in HitSpan, py \in HitHeights :
            LET cell == Vec(World(MathRound(px)), 0, World(MathRound(-px)))
                r == SimplePlace(GroupNow, PlaneHit(Vec(px, py, -px)))
            IN  IF getKey(cell) \in occupiedPositions
                THEN ~r.ret /\ r.st = GroupNow
                ELSE /\ r.ret
                     /\ r.st.occupiedPositions = occupiedPositions \cup {getKey(cell)}
                     /\ r.st.blocksGroup =
                          blocksGroup (+) SetToBag({[position |-> cell, positionKey |-> <<>>]})

\* The pointer moved over a ground point above the plane's height and the
\* preview went to height 0
C10_Witness ==
    /\ program = "BlockBuilder"
    /\ event.handler = "onMouseMove" /\ event.ret = "plane"
    /\ event.detail # 0
    /\ previewBlock.visible
    /\ previewBlock.position.y = 0

\* The pointer was let go more than dragThreshold from where it was pressed,
\* along at least one axis
ReleasedFar(g) ==
    \/ Abs(g.upX - g.x) > dragThreshold
    \/ Abs(g.upY - g.y) > dragThreshold

\* C11: a primary-button gesture, with no other button event between its
\* pointer-down and its pointer-up, whose pointer-up is more than
\* dragThreshold from its pointer-down on some axis adds no block, whatever
\* pointer-moves came in between.
\* Fails: onMouseUp never compares positions; isDragging is set by onMouseMove
\* alone, so a release far away without a pointer-move beyond the threshold
\* in between still places.
C11_FarReleaseAddsNothing ==
    [][(/\ program = "BlockBuilder"
        /\ gesture.state = "primary" /\ gesture'.state = "released"
        /\ ReleasedFar(gesture'))
          => UNCHANGED groupVars]_vars

\* C12: a pointer-move never changes occupancy. A step that leaves onMouseMove
\* as the handler that ran last, as every step of onMouseMove does, in either
\* controller, leaves occupiedPositions and the children of blocksGroup as
\* they were; a call of BlockSystem.updateHighlightPosition, with or without
\* an intersection, leaves the blocks map as it was; and the same pointer-move
\* with the same ray hit, repeated, gives the same preview cell and the same
\* visibility.
C12_PointerMoveKeepsOccupancy ==
    /\ [][/\ (/\ program \in {"BlockBuilder", "BlockBuilderSimple"}
              /\ event'.handler = "onMouseMove") =>
               UNCHANGED groupVars
          /\ (/\ program = "BlockSystemHover"
              /\ sysCall'.op \in {"updateHighlightPosition", "updateHighlightNone"}) =>
               blocks' = blocks]_vars
    /\ [](program = "BlockBuilder" =>
            \A hit \in SceneHits(blocksGroup) :
                LET once == updatePreview(previewBlock, hit)
                IN  updatePreview(once, hit) = once)
    /\ [](program = "BlockBuilderSimple" =>
            \A hit \in SimpleSceneHits(blocksGroup) :
                LET once == SimpleUpdatePreview(previewBlock, hit)
                IN  SimpleUpdatePreview(once, hit) = once)

\* A pointer-move over a face of a placed block has shown the preview
C12_Witness ==
    /\ program = "BlockBuilder"
    /\ event.handler = "onMouseMove" /\ event.ret = "block"
    /\ previewBlock.visible
    /\ occupiedPositions # {}

\* C13: a primary pointer-down of the drag-aware controller records the start
\* of the gesture (dragStartX and dragStartY are the event's coordinates,
\* isDragging is false, clickedOnUI tells whether the target is inside the
\* interface) and changes neither occupiedPositions nor the children of
\* blocksGroup; a block is added only by a pointer-up.
C13_PrimaryDownRecordsStart ==
    [][/\ (/\ program = "BlockBuilder"
           /\ event'.handler = "onMouseDown" /\ gesture'.state = "primary"
           /\ OnMouseDown) =>
            /\ UNCHANGED groupVars
            /\ dragStartX' = gesture'.x /\ dragStartY' = gesture'.y
            /\ isDragging' = FALSE
            /\ clickedOnUI' = gesture'.onUI
       /\ (/\ program = "BlockBuilder"
           /\ \/ occupiedPositions' \ occupiedPositions # {}
              \/ BagCardinality(blocksGroup') > BagCardinality(blocksGroup)) =>
            OnMouseUp]_vars

\* A primary pointer-down on the interface, over a preview that shows, with a
\* block placed: the start is recorded and the block count is what it was
C13_Witness ==
    /\ program = "BlockBuilder"
    /\ event.handler = "onMouseDown" /\ gesture.state = "primary"
    /\ gesture.onUI /\ clickedOnUI
    /\ dragStartX = dragThreshold + 1
    /\ previewBlock.visible
    /\ occupiedPositions # {}

\* C14: the pointer-up of a primary gesture whose pointer-down target was
\* inside the interface adds no block, wherever the pointer is let go, when no
\* other button event came in between; after that pointer-up the flag that
\* remembers the interface origin is cleared.
C14_GestureFromUIAddsNothing ==
    [][(/\ program = "BlockBuilder"
        /\ gesture.state = "primary" /\ gesture.onUI
        /\ event'.handler = "onMouseUp" /\ gesture'.state = "released"
        /\ OnMouseUp) =>
            /\ UNCHANGED groupVars
            /\ clickedOnUI' = FALSE]_vars

\* Such a gesture has ended over a preview that shows on a free cell, with a
\* model ready and without a drag: only its origin kept the block out
C14_Witness ==
    /\ program = "BlockBuilder"
    /\ event.handler = "onMouseUp" /\ event.ret = ""
    /\ gesture.state = "released" /\ gesture.onUI
    /\ gesture.upX = gesture.x /\ gesture.upY = gesture.y
    /\ ~clickedOnUI
    /\ previewBlock.visible
    /\ ModelReady(GroupNow)
    /\ ~IsOccupied(GroupNow, getKey(previewBlock.position))

\* C15: a secondary pointer-down of the drag-aware controller whose ray hits
\* a node, at any depth, of a placed block removes in that event exactly that
\* block: its key leaves occupiedPositions and its top-level instance leaves
\* blocksGroup, nothing else changes there, whatever isDragging and clickedOnUI
\* were and whether or not the target is inside the interface. A secondary
\* pointer-down whose ray hits no block changes neither.
C15_SecondaryDownRemovesHitBlock ==
    [][(/\ program = "BlockBuilder"
        /\ event'.handler = "onMouseDown" /\ gesture'.state = "secondary"
        /\ OnMouseDown) =>
            IF event'.detail = 0
            THEN UNCHANGED groupVars
            ELSE \E top \in BagToSet(blocksGroup) :
                    /\ top.positionKey \in occupiedPositions
                    /\ occupiedPositions' = occupiedPositions \ {top.positionKey}
                    /\ blocksGroup' = blocksGroup (-) SetToBag({top})
                    /\ BagCardinality(blocksGroup') = BagCardinality(blocksGroup) - 1]_vars

\* A secondary pointer-down inside the interface has hit the deepest node of
\* one of two blocks and removed it; the other is still there
C15_Witness ==
    /\ program = "BlockBuilder"
    /\ event.handler = "onMouseDown" /\ event.ret = "removed"
    /\ event.detail = MaxDepth
    /\ gesture.state = "secondary" /\ gesture.onUI /\ clickedOnUI
    /\ Cardinality(occupiedPositions) = 1

\* C16: the scenario, run through the drag-aware controller with a loaded
\* model selected, gives step by step: from no blocks, the click at (0,0,0)
\* adds a block and leaves one key; the same click again is rejected and
\* leaves one key; the click after aiming at the +x face of the block at
\* (0,0,0) adds a block at (1,0,0) and leaves two keys; the right click on the
\* block at (0,0,0) leaves the one key of (1,0,0) and its instance; the reset
\* key leaves none.
C16_ScenarioOutcomes ==
    program = "BlockBuilder" =>
        LET step == Len(scenario)
            k0 == <<"0", ",", "0", ",", "0">>
            k1 == <<"1", ",", "0", ",", "0">>
            size == BagCardinality(blocksGroup)
        IN  /\ step >= 1 => scenario[1] = "added"
            /\ step >= 2 => scenario[2] = "rejected"
            /\ step >= 4 => scenario[4] = "added"
            /\ step \in {1, 2, 3} => occupiedPositions = {k0} /\ size = 1
            /\ step = 3 => previewBlock.visible /\ previewBlock.position = Vec(World(1), 0, 0)
            /\ step = 4 => occupiedPositions = {k0, k1} /\ size = 2
            /\ step = 5 =>
                  /\ occupiedPositions = {k1} /\ size = 1
                  /\ \E top \in BagToSet(blocksGroup) :
                        top.position = Vec(World(1), 0, 0) /\ top.positionKey = k1
            /\ step = 6 => occupiedPositions = {} /\ size = 0

\* The scenario has run to its end
C16_Witness ==
    /\ program = "BlockBuilder"
    /\ scenario = <<"added", "rejected", "aimed", "added", "removed", "reset">>
    /\ event.handler = "onKeyDown" /\ event.detail = 1

\* C17: in every step of the drag-aware controller a key enters
\* occupiedPositions only by an addBlock that succeeds at a primary
\* pointer-up, and a key leaves it only by a secondary pointer-down that hits
\* the block of that key or by the reset key; a pointer-move, a primary
\* pointer-down, a click on a model's option, a click on a pagination button,
\* the end of a model load, the arrival of the catalog and a resize leave
\* occupiedPositions as it was.
C17_OccupancyChangesOnlyByPlaceRemoveReset ==
    [][program = "BlockBuilder" =>
        LET added == occupiedPositions' \ occupiedPositions
            left  == occupiedPositions \ occupiedPositions'
        IN  /\ added # {} =>
                  /\ OnMouseUp
                  /\ event' = Event("onMouseUp", "added")
                  /\ Cardinality(added) = 1 /\ left = {}
            /\ left # {} =>
                  \/ /\ OnMouseDown
                     /\ event'.ret = "removed" /\ gesture'.state = "secondary"
                     /\ \E top \in BagToSet(blocksGroup) :
                           left = {top.positionKey} /\ ~BagIn(top, blocksGroup')
                  \/ /\ OnKeyDown
                     /\ event'.ret \in {"r", "R"}]_vars

\* A block is placed and the selector has been turned to its second page
C17_Witness ==
    /\ program = "BlockBuilder"
    /\ pagination.currentPage = 2
    /\ occupiedPositions # {}
    /\ event.handler = "onMouseUp" /\ event.ret = "added"

\* C18: for every grid coordinate g with integer components, negative, zero
\* or positive, keyToPosition(positionToKey(g)) is g, and two such
\* coordinates have the same key only if they are equal.
C18_KeyRoundTrip ==
    program = "BlockSystemKeys" =>
        /\ sysCall.op = "keyToPosition" => sysCall.pos = sysCall.prev.pos
        /\ sysCall.op = "positionToKey" =>
              /\ keyToPosition(positionToKey(sysCall.pos)) = sysCall.pos
              /\ \A h \in KeyBox :
                    positionToKey(h) = positionToKey(sysCall.pos) => h = sysCall.pos

\* A coordinate with negative components of one and of two digits has come
\* back from its key
C18_Witness ==
    /\ program = "BlockSystemKeys"
    /\ sysCall.op = "keyToPosition" /\ sysCall.prev.op = "positionToKey"
    /\ sysCall.pos = Vec(-10, -1, 12)

C20_SelectionOnlyByOptionClick ==
    [][(program = "BlockBuilder" /\ selectedModel' # selectedModel) =>
          \/ OptionClick
          \/ /\ LoadDone
             /\ \E l \in pendingLoads \ pendingLoads' : l.kind = "click"]_vars

\* C20, amended: in the drag-aware controller selectedModel changes only to
\* the model of an option the user clicked, at the click if that model is
\* loaded and when the load that click started ends if not, or to the model
\* of a background load that ends while the first page shows and no model is
\* selected, that model having been the first of its page; no other event
\* changes it.
C20_SelectionByClickOrDefault ==
    [][(program = "BlockBuilder" /\ selectedModel' # selectedModel) =>
          \/ /\ OptionClick
             /\ selectedModel' \in blockModels
             /\ selectedModel' \in VisibleIds(allModelFiles, pagination)
          \/ /\ LoadDone
             /\ \E l \in pendingLoads \ pendingLoads' :
                   /\ selectedModel' = l.id
                   /\ \/ l.kind = "click"
                      \/ /\ l.kind = "background" /\ l.index = 0
                         /\ pagination.currentPage = 1 /\ selectedModel = Null]_vars

\* A background load has ended on the first page and made its model the
\* selection, no option having been clicked for it
C20_Witness ==
    /\ program = "BlockBuilder"
    /\ event = Event("selectModel", "background")
    /\ selectedModel # Null /\ selectedModel \in blockModels
    /\ pagination.currentPage = 1

\* The intersections the two calls are compared on: points of the faces of
\* the blocks' cubes, and the centres of ground cells hit from above
ClickHits(blks) ==
    HighlightHits(blks)
    \cup UNION {{[point |-> pt, normal |-> n] : pt \in HitPoints(blks[k], n)} :
                  k \in DOMAIN blks, n \in FaceNormals}

\* C24: in BlockSystem, for one intersection and face, the cell
\* updateHighlightPosition returns, when it returns one, is the cell where
\* handleClick(intersection, face, false) places the block; and when
\* updateHighlightPosition returns null for an intersection that exists, that
\* handleClick places nothing.
C24_HighlightCellIsClickCell ==
    program = "BlockSystemHover" =>
        \A hit \in ClickHits(blocks) :
            LET u == updateHighlightPosition(SysNow, highlightBlock, hit.point, hit.normal)
                h == handleClick(SysNow, hit.point, hit.normal, FALSE)
            IN  IF u.ret # <<>>
                THEN /\ h.ret
                     /\ DOMAIN h.st.blocks = DOMAIN blocks \cup {positionToKey(u.ret[1])}
                     /\ positionToKey(u.ret[1]) \notin DOMAIN blocks
                     /\ h.st.blocks[positionToKey(u.ret[1])].position = MeshPosition(u.ret[1])
                     /\ \A k \in DOMAIN blocks : h.st.blocks[k] = blocks[k]
                     /\ u.highlightBlock.position = MeshPosition(u.ret[1])
                ELSE ~h.ret /\ h.st = SysNow

\* The highlight was shown on the free cell above a block, and the click with
\* the same intersection has placed a block in that cell
C24_Witness ==
    /\ program = "BlockSystemHover"
    /\ sysCall.op = "handleClickLeft" /\ sysCall.ret
    /\ sysCall.prev.op = "updateHighlightPosition" /\ sysCall.prev.ret
    /\ sysCall.prev.pos = sysCall.pos
    /\ sysCall.normal = Vec(0, 1, 0) /\ sysCall.pos = Vec(0, 1, 0)
    /\ hasBlock(blocks, sysCall.pos)
    /\ highlightBlock.visible /\ highlightBlock.position = MeshPosition(sysCall.pos)

\* C25: BlockSystem.updateHighlightPosition returns null and hides the
\* highlight when there is no intersection or when the cell it resolves is
\* occupied; otherwise it shows the highlight, at that cell, and returns the
\* cell. So right after the call the highlight shows if and only if a cell was
\* returned, and a cell returned is not occupied.
C25_HighlightShowsIffCellReturned ==
    program = "BlockSystemHover" =>
        /\ sysCall.op = "updateHighlightNone" => ~sysCall.ret /\ ~highlightBlock.visible
        /\ sysCall.op = "updateHighlightPosition" =>
              LET gridPos == PlaceTarget(sysCall.point, sysCall.normal)
              IN  /\ sysCall.ret = ~hasBlock(blocks, gridPos)
                  /\ highlightBlock.visible = sysCall.ret
                  /\ sysCall.ret =>
                        /\ sysCall.pos = gridPos
                        /\ highlightBlock.position = MeshPosition(gridPos)

\* The highlight was showing; a call with an intersection that resolves an
\* occupied cell has returned null and hidden it
C25_Witness ==
    /\ program = "BlockSystemHover"
    /\ sysCall.op = "updateHighlightPosition" /\ ~sysCall.ret
    /\ sysCall.prev.op = "updateHighlightPosition" /\ sysCall.prev.ret
    /\ hasBlock(blocks, PlaceTarget(sysCall.point, sysCall.normal))
    /\ ~highlightBlock.visible

\* The step is the primary pointer-up that ends the press under way
PressEnds == program = "BlockBuilderGestures" /\ press.state = "down" /\ press'.state = "up"

\* The preview shows on a free cell and a loaded model is selected
PreviewOnFreeCell ==
    /\ previewBlock.visible
    /\ ModelReady(GroupNow)
    /\ ~IsOccupied(GroupNow, getKey(previewBlock.position))

\* The step adds one block, at the preview's cell, and nothing else
AddsBlockAtPreview ==
    LET key == getKey(previewBlock.position)
        modelScene == [position |-> RoundVec(previewBlock.position), positionKey |-> key]
    IN  /\ occupiedPositions' = occupiedPositions \cup {key}
        /\ key \notin occupiedPositions
        /\ blocksGroup' = blocksGroup (+) SetToBag({modelScene})

\* C21: a primary-button gesture that starts off the interface, whose
\* pointer-moves all stay within dragThreshold of the pointer-down position on
\* both axes (exactly dragThreshold away included), and that ends while the
\* preview shows on a free cell c with a loaded model selected, adds exactly
\* one block, at c, and nothing else.
\* Fails: a pointer-down of the secondary button that comes in before the
\* primary pointer-up sets clickedOnUI from its own target, and the pointer-up
\* then adds nothing.
C21_SteadyPressAddsOneBlock ==
    [][(PressEnds /\ ~press.onUI /\ ~press.far /\ PreviewOnFreeCell) =>
          AddsBlockAtPreview]_vars

\* C22: once a pointer-move of a primary gesture has gone beyond dragThreshold
\* on either axis the gesture stays a drag until its pointer-up: with no other
\* button event in between, the pointer-up adds no block, also when the
\* pointer has moved back to where it went down; and the pointer-up clears
\* isDragging, so that the click that follows (off the interface, without a
\* move beyond the threshold or another button event, the preview on a free
\* cell, a loaded model selected) adds its block.
C22_DragStaysDragUntilUp ==
    [][/\ (PressEnds /\ press.far /\ ~press.others) =>
            /\ UNCHANGED groupVars
            /\ isDragging
            /\ isDragging' = FALSE
       /\ (PressEnds /\ ~press.onUI /\ ~press.far /\ ~press.others /\ PreviewOnFreeCell) =>
            AddsBlockAtPreview]_vars

\* A press off the interface went beyond the threshold, came back to where it
\* began and ended there, the preview on a free cell and a model loaded: no
\* block was added and the drag flag is clear
C22_Witness ==
    /\ program = "BlockBuilderGestures"
    /\ press.state = "up" /\ press.far /\ press.back /\ ~press.others /\ ~press.onUI
    /\ gesture.state = "released" /\ gesture.upX = press.x /\ gesture.upY = press.y
    /\ event = Event("onMouseUp", "")
    /\ PreviewOnFreeCell
    /\ ~isDragging
    /\ blocksGroup = EmptyBag

\* C23: events of the secondary button inside a primary gesture do not change
\* its outcome: a primary gesture that went beyond the drag threshold, or that
\* began on the interface, adds no block at its pointer-up when a pointer-down
\* or a pointer-up of the secondary button, or both, came in between.
\* Fails: both handlers clear isDragging whatever the button, onMouseUp clears
\* clickedOnUI and onMouseDown sets it from its own target.
C23_OtherButtonKeepsOutcome ==
    [][(PressEnds /\ (press.far \/ press.onUI) /\ press.others) =>
          UNCHANGED groupVars]_vars

\* The pointer-move that ran last hit a face of a block whose world-space
\* normal is none of the six axis-aligned unit vectors
SlantedMove(e) ==
    /\ e.handler = "onMouseMove" /\ e.ret = "block"
    /\ \E n \in SlantedNormals : e.detail = n.x

\* C26: in the drag-aware controller a hit on a face of a block whose
\* world-space normal is none of the six axis-aligned unit vectors is
\* rejected: the pointer-move gives no preview target, and the click that
\* follows places nothing; the normal is not rounded into some cell.
\* Fails: updatePreview adds whatever normal it is given to the block's
\* position and rounds the sum.
C26_SlantedNormalRejected ==
    /\ [](program = "BlockBuilder" /\ SlantedMove(event) => ~previewBlock.visible)
    /\ [][(program = "BlockBuilder" /\ SlantedMove(event) /\ event'.handler = "onMouseUp") =>
            UNCHANGED groupVars]_vars

\* The top-level object is on the floor layer, or a cell that shares a face
\* with its cell is occupied
OnFloorOrBesideBlock(object, occupied) ==
    \/ object.position.y = 0
    \/ \E n \in WorldNormals : getKey(VecAdd(object.position, n)) \in occupied

\* C27: in the drag-aware controller every block added at a primary
\* pointer-up lands on a cell that, in the occupancy at the moment of that
\* pointer-up, is on the floor layer (y = 0) or shares a face with an occupied
\* cell, for every sequence of events, removals or a reset after the last
\* pointer-move included.
\* Fails: the preview keeps the cell of the last pointer-move when the block
\* it was resolved against is removed.
C27_AddedBlockIsSupported ==
    [][(/\ program = "BlockBuilder"
        /\ event' = Event("onMouseUp", "added")
        /\ OnMouseUp) =>
            \A object \in BagToSet(blocksGroup') \ BagToSet(blocksGroup) :
                OnFloorOrBesideBlock(object, occupiedPositions)]_vars

\* C28: in the drag-aware controller, in every reachable state, a
\* selectedModel that is not null names a model that is loaded (it has an
\* entry in blockModels); so addBlock rejects for lack of a model only while
\* selectedModel is null, and selectedModel, once set, is never null again.
C28_SelectedModelIsLoaded ==
    /\ [](program = "BlockBuilder" =>
            /\ selectedModel # Null => selectedModel \in blockModels
            /\ \A pos \in BoxPositions :
                  (~addBlock(GroupNow, pos).ret /\ ~IsOccupied(GroupNow, getKey(pos))) =>
                      selectedModel = Null)
    /\ [][(program = "BlockBuilder" /\ selectedModel # Null) => selectedModel' # Null]_vars

\* The option of a model not yet loaded was clicked, and the load that click
\* started has just made the model, now loaded, the selection
C28_Witness ==
    /\ program = "BlockBuilder"
    /\ event = Event("selectModel", "click")
    /\ selectedModel # Null /\ selectedModel \in blockModels
    /\ ModelReady(GroupNow)

\* C29: when the user clicks the option of model A and later the option of
\* model B, then once every pending model load has completed the selected
\* model is B, the option clicked last, in whatever order the load callbacks
\* run.
\* Fails: the callback of the load a click started selects its model when it
\* runs, whatever was clicked since.
C29_LastClickedIsSelected ==
    (/\ program = "BlockBuilderModels"
     /\ loader.clicked \in LoadableIds
     /\ pendingLoads = {}) =>
        selectedModel = loader.clicked

\* C30: the default selection a background load makes when it completes (the
\* first model of page 1) takes effect only while no model is selected: once
\* selectedModel is not null, no callback of a background load changes it, in
\* every interleaving of load callbacks, page changes and clicks.
C30_DefaultOnlyWhileNoneSelected ==
    [][(/\ program = "BlockBuilderModels"
        /\ selectedModel # Null
        /\ \E l \in pendingLoads \ pendingLoads' : l.kind = "background") =>
            selectedModel' = selectedModel]_vars

\* The background load of the first model of page 1 has completed, page 1
\* showing, after another model had been selected: that model is still the
\* selection
C30_Witness ==
    /\ program = "BlockBuilderModels"
    /\ loader.done.kind = "background" /\ loader.done.index = 0 /\ loader.page = 1
    /\ loader.done.id = allModelFiles[1]
    /\ loader.found # Null /\ loader.found # loader.done.id
    /\ selectedModel = loader.found
    /\ loader.done.id \in blockModels

=============================================================================
